---- MODULE Spec2Model ----
(***************************************************************************)
(* The self-update flow of cc (claude-commit): handleUpdate, copyFile and  *)
(* calculateSHA256 of main.go, as a state machine over the release         *)
(* metadata, the checksum manifest, the downloaded bytes and the files the *)
(* flow touches.  Every statement of handleUpdate that reads the network   *)
(* or changes a file is one step, so that the states between two steps are *)
(* the states in which the process can be killed.                          *)
(***************************************************************************)
EXTENDS Naturals, Sequences, FiniteSets, TLC

VARIABLES
    goos,             \* runtime.GOOS of the build
    goarch,           \* runtime.GOARCH of the build
    pc,               \* the statement of handleUpdate that runs next
    status,           \* "running", "exit0" or "exit1"
    diag,             \* the last diagnostic line printed
    release,          \* the decoded GithubRelease
    binaryName,       \* main.go:358
    downloadURL,      \* main.go:362
    checksumURL,      \* main.go:363
    checksumData,     \* main.go:393, the manifest as read
    expectedChecksum, \* main.go:400
    body,             \* the response body of the binary download
    actualChecksum,   \* main.go:447
    fs,               \* the files the flow can touch, by path
    deferred,         \* TRUE once defer os.Remove(tmpPath) is registered
    requests,         \* the URLs requested so far, in order
    launched,         \* TRUE once the detached update script was started
    ops,              \* the file operations issued so far, in order
    errShown,         \* the error value printed by main.go:520 or main.go:531
    args,             \* os.Args[1:]
    planMode,         \* main.go:54
    forceMode,        \* main.go:55
    noPush,           \* main.go:56
    result,           \* main.go:152, the review text, then the commit message
    response,         \* main.go:204, the line read from standard input
    calls,            \* the commands main has run so far, in order
    script,           \* the line of update.bat that runs next, "none" before its start
    scriptOps,        \* the file operations update.bat has issued so far, in order
    spin,             \* the statement of the spinner goroutine that runs next
    stopSpinner,      \* main.go:119, the unbuffered channel: is a sender blocked on it
    wg,               \* main.go:118, the counter of the WaitGroup
    frame,            \* main.go:124, i modulo len(spinner)
    tty,              \* the last text written to the terminal
    reviewErr         \* main.go:152, err of ReviewAndCommitMessage is not nil

\* the variables of the spinner hand-off (main.go:114-161)
spinVars == <<spin, stopSpinner, wg, frame, tty, reviewErr>>

\* the variables of main outside handleUpdate
mainVars == <<args, planMode, forceMode, noPush, result, response, calls, spinVars>>

\* the variables of update.bat (main.go:488-494)
scriptVars == <<script, scriptOps>>

\* the variables of handleUpdate
updateVars == <<goos, goarch, release, binaryName, downloadURL, checksumURL, checksumData,
                expectedChecksum, body, actualChecksum, fs, deferred, requests, launched,
                ops, errShown, scriptVars>>

vars == <<pc, status, diag, updateVars, mainVars>>

----------------------------------------------------------------------------
(* Bounds of the model *)

\* the longest asset list of a release
MaxAssets == 2

\* the largest number of lines of a checksum manifest
MaxLines == 2

----------------------------------------------------------------------------
(* Program constants and the inputs the model draws from *)

VERSION == "v1.0.10"

ReleaseAPI == "https://api.github.com/repos/quaywin/claude-commit/releases/latest"

ManifestAsset == "checksums.txt"

Platforms == { <<"linux", "amd64">>, <<"darwin", "arm64">>, <<"windows", "amd64">> }

Tags == { "v1.0.10", "v1.0.11" }

SeqsUpTo(S, n) == UNION { [1..k -> S] : k \in 0..n }

\* the byte contents a binary download can deliver
Bodies == { "release-bytes", "tampered-bytes" }

\* the name of a platform with the letters in upper case
UpperName(os, arch) ==
    CASE os = "linux"   -> "CC-LINUX-AMD64"
      [] os = "darwin"  -> "CC-DARWIN-ARM64"
      [] os = "windows" -> "CC-WINDOWS-AMD64.EXE"

\* the expected name with the .exe rule applied the wrong way round
WrongSuffixName(os, arch) ==
    "cc-" \o os \o "-" \o arch \o (IF os = "windows" THEN "" ELSE ".exe")

\* names that are near the expected asset name without being equal to it
NearNames(name, os, arch) ==
    { name \o "-v2", "my-" \o name, UpperName(os, arch), WrongSuffixName(os, arch) }

\* a release asset as decoded from the JSON body
Asset(n, u) == [name |-> n, url |-> u]

URLOf(n) == "https://github.com/quaywin/claude-commit/releases/download/" \o n

AssetChoices(name, os, arch) ==
    LET names == { name, ManifestAsset, "Checksums.txt" } \cup NearNames(name, os, arch)
    IN  { Asset(n, URLOf(n)) : n \in names } \cup { Asset(n, "") : n \in { name, ManifestAsset } }

Whitespace == { " ", "\t" }

ManifestDigests == { "9f2c", "9F2C", "0b7e" }

\* a manifest line as sha256sum writes it: digest, two blanks, name
Entry(d, n) == << d, " ", " ", n >>

ManifestLines(name, os, arch) ==
    { Entry(d, name) : d \in ManifestDigests }
    \cup { Entry("9f2c", n) : n \in { name \o "-v2", UpperName(os, arch) } }
    \cup { << >>, << name >>, << "9f2c", "\t", name, " ", "extra" >> }

RECURSIVE JoinLines(_)
JoinLines(ls) ==
    IF ls = << >> THEN << >>
    ELSE IF Len(ls) = 1 THEN ls[1]
    ELSE ls[1] \o << "\n" >> \o JoinLines(Tail(ls))

----------------------------------------------------------------------------
(* Pure functions of the code *)

\* variant of IsCurrent: the tag compared with "v" prepended to VERSION
IsCurrentPrefixed(tag) == tag = "v" \o VERSION

\* main.go:346, byte-for-byte equality of the tag and VERSION
IsCurrent(tag) == tag = VERSION

\* main.go:358-361
BinaryName(os, arch) ==
    "cc-" \o os \o "-" \o arch \o (IF os = "windows" THEN ".exe" ELSE "")

\* strings.HasPrefix over the names of the model
HasPrefix(s, p) == \E tail \in { "", "-v2", ".exe" } : s = p \o tail

\* variant of AssetURL: strings.HasPrefix in place of ==
RECURSIVE AssetURLByPrefix(_, _)
AssetURLByPrefix(assets, name) ==
    IF assets = << >> THEN ""
    ELSE LET last == assets[Len(assets)]
             rest == SubSeq(assets, 1, Len(assets) - 1)
         IN  IF HasPrefix(last.name, name) THEN last.url ELSE AssetURLByPrefix(rest, name)

\* main.go:364-371, the loop over release.Assets: the last asset of that name wins
RECURSIVE AssetURL(_, _)
AssetURL(assets, name) ==
    IF assets = << >> THEN ""
    ELSE LET last == assets[Len(assets)]
             rest == SubSeq(assets, 1, Len(assets) - 1)
         IN  IF last.name = name THEN last.url ELSE AssetURL(rest, name)

\* variant of NoBinaryFound: the abort left out
NoBinaryFoundNever(url) == FALSE

\* main.go:373
NoBinaryFound(url) == url = ""

\* variant of NoManifestFound: a missing manifest is only a warning
NoManifestFoundNever(url) == FALSE

\* main.go:378
NoManifestFound(url) == url = ""

\* strings.Split(data, "\n")
RECURSIVE SplitLines(_)
SplitLines(data) ==
    IF \A i \in 1..Len(data) : data[i] # "\n" THEN << data >>
    ELSE LET k == CHOOSE i \in 1..Len(data) :
                     data[i] = "\n" /\ \A j \in 1..(i - 1) : data[j] # "\n"
         IN  << SubSeq(data, 1, k - 1) >> \o SplitLines(SubSeq(data, k + 1, Len(data)))

\* strings.Fields(line)
Fields(line) == SelectSeq(line, LAMBDA t : t \notin Whitespace)

\* variant of FirstDigest: len(parts) >= 2 in place of len(parts) == 2
RECURSIVE FirstDigestLoose(_, _)
FirstDigestLoose(lines, name) ==
    IF lines = << >> THEN ""
    ELSE LET parts == Fields(Head(lines))
         IN  IF Len(parts) >= 2 /\ parts[2] = name THEN parts[1]
             ELSE FirstDigestLoose(Tail(lines), name)

\* main.go:401-407: the digest of the first line with two fields, the second the name
RECURSIVE FirstDigest(_, _)
FirstDigest(lines, name) ==
    IF lines = << >> THEN ""
    ELSE LET parts == Fields(Head(lines))
         IN  IF Len(parts) = 2 /\ parts[2] = name THEN parts[1]
             ELSE FirstDigest(Tail(lines), name)

\* main.go:399-407
ExpectedChecksumOf(data, name) == FirstDigest(SplitLines(data), name)

\* main.go:562-575, calculateSHA256 of a file's content: lower-case hex
\* (hex.EncodeToString emits 0-9a-f only), different for different contents
Sha256Hex(data) ==
    CASE data = "release-bytes"   -> "9f2c"
      [] data = "tampered-bytes"  -> "0b7e"
      [] data = "truncated"       -> "d41d"
      [] OTHER                    -> "e3b0"

\* the letters of the model's strings in lower case; other strings have none to change
ToLower(t) ==
    CASE t = "9F2C"              -> "9f2c"
      [] t = "0B7E"              -> "0b7e"
      [] t = "ISSUE"             -> "issue"
      [] t = "Issue"             -> "issue"
      [] t = "Suggested message" -> "suggested message"
      [] t = "SUGGESTED MESSAGE" -> "suggested message"
      [] t = "Commit message"    -> "commit message"
      [] t = "Y"                 -> "y"
      [] t = "E"                 -> "e"
      [] t = "S"                 -> "s"
      [] t = "N"                 -> "n"
      [] OTHER                   -> t

\* the same in upper case
ToUpper(t) ==
    CASE ToLower(t) = "9f2c"              -> "9F2C"
      [] ToLower(t) = "0b7e"              -> "0B7E"
      [] ToLower(t) = "issue"             -> "ISSUE"
      [] ToLower(t) = "suggested message" -> "SUGGESTED MESSAGE"
      [] ToLower(t) = "commit message"    -> "COMMIT MESSAGE"
      [] ToLower(t) = "y"                 -> "Y"
      [] ToLower(t) = "e"                 -> "E"
      [] ToLower(t) = "s"                 -> "S"
      [] ToLower(t) = "n"                 -> "N"
      [] OTHER                            -> t

\* variant of ChecksumMatches: strings.EqualFold in place of ==
ChecksumMatchesFold(actual, expected) == ToLower(actual) = ToLower(expected)

\* variant of ChecksumMatches: the comparison left out
ChecksumMatchesAlways(actual, expected) == TRUE

\* main.go:453
ChecksumMatches(actual, expected) == actual = expected

----------------------------------------------------------------------------
(* Files *)

exePath == "exePath"
oldPath == "exePath.old"
newPath == "exePath.new"
batchScript == "update.bat"
tmpPath == "tmpPath"

Paths == { exePath, oldPath, newPath, batchScript, tmpPath }

\* the paths of the installation, as opposed to the private temporary file
InstallPaths == { exePath, oldPath, newPath, batchScript }

Absent == [data |-> "absent", exec |-> FALSE]

Original == [data |-> "original-binary", exec |-> TRUE]

Exists(f) == f.data # "absent"

\* os.Rename(src, dst): all or nothing; an ignored error leaves both as they were
RenameResults(files, src, dst) ==
    { [fs |-> files, res |-> "fail"] }
    \cup (IF Exists(files[src])
          THEN { [fs |-> [files EXCEPT ![dst] = files[src], ![src] = Absent], res |-> "ok"] }
          ELSE { })

\* os.Create keeps the mode of a file that exists and creates 0666 otherwise
CreatedExec(f) == IF Exists(f) THEN f.exec ELSE FALSE

\* main.go:542-560, copyFile: where it fails decides what is left at dst
CopyFileResults(files, src, dst) ==
    { [fs |-> files, res |-> "open"],
      [fs |-> files, res |-> "create"] }
    \cup (IF Exists(files[src])
          THEN { [fs |-> [files EXCEPT ![dst] = [data |-> "truncated", exec |-> CreatedExec(files[dst])]],
                  res |-> "copy"],
                 [fs |-> [files EXCEPT ![dst] = [data |-> files[src].data, exec |-> CreatedExec(files[dst])]],
                  res |-> "chmod"],
                 [fs |-> [files EXCEPT ![dst] = [data |-> files[src].data, exec |-> TRUE]],
                  res |-> "ok"] }
          ELSE { })

Op(kind, src, dst, res) == [op |-> kind, src |-> src, dst |-> dst, res |-> res]

\* the paths an operation of the log writes, moves or removes
Touched(o) == IF o.op = "rename" THEN { o.src, o.dst } ELSE { o.dst }

----------------------------------------------------------------------------
(* The flow *)

Init ==
    /\ \E p \in Platforms : goos = p[1] /\ goarch = p[2]
    /\ pc = "fetch"
    /\ status = "running"
    /\ diag = ""
    /\ release = [tag |-> "", assets |-> << >>]
    /\ binaryName = ""
    /\ downloadURL = ""
    /\ checksumURL = ""
    /\ checksumData = << >>
    /\ expectedChecksum = ""
    /\ body = ""
    /\ actualChecksum = ""
    /\ fs = [p \in Paths |-> IF p = exePath THEN Original ELSE Absent]
    /\ deferred = FALSE
    /\ requests = << >>
    /\ launched = FALSE
    /\ ops = << >>
    /\ errShown = ""
    /\ args = << "update" >>
    /\ planMode = FALSE
    /\ forceMode = FALSE
    /\ noPush = FALSE
    /\ result = << >>
    /\ response = << >>
    /\ calls = << >>
    /\ script = "none"
    /\ scriptOps = << >>
    /\ spin = "none"
    /\ stopSpinner = "empty"
    /\ wg = 0
    /\ frame = 0
    /\ tty = ""
    /\ reviewErr = FALSE

\* os.Exit(1) after a diagnostic: deferred calls do not run
Fail(msg) ==
    /\ pc' = "exited"
    /\ status' = "exit1"
    /\ diag' = msg

Goto(next) ==
    /\ pc' = next
    /\ UNCHANGED <<status, diag>>

\* main.go:319-343
FetchRelease ==
    /\ pc = "fetch"
    /\ requests' = Append(requests, ReleaseAPI)
    /\ \/ /\ \E msg \in { "Error checking for updates", "Error fetching release info",
                          "Error parsing release info" } : Fail(msg)
          /\ UNCHANGED release
       \/ /\ \E tag \in Tags :
             \E assets \in SeqsUpTo(AssetChoices(BinaryName(goos, goarch), goos, goarch), MaxAssets) :
                release' = [tag |-> tag, assets |-> assets]
          /\ Goto("compare")
    /\ UNCHANGED <<mainVars, scriptVars>>
    /\ UNCHANGED <<errShown, goos, goarch, binaryName, downloadURL, checksumURL, checksumData,
                   expectedChecksum, body, actualChecksum, fs, deferred, launched, ops>>

\* main.go:345-351
CheckVersion ==
    /\ pc = "compare"
    /\ IF IsCurrent(release.tag)
       THEN /\ pc' = "return"
            /\ diag' = "You're already on the latest version"
            /\ UNCHANGED status
       ELSE /\ pc' = "resolve"
            /\ diag' = "New version available"
            /\ UNCHANGED status
    /\ UNCHANGED <<mainVars, scriptVars>>
    /\ UNCHANGED <<errShown, goos, goarch, release, binaryName, downloadURL, checksumURL, checksumData,
                   expectedChecksum, body, actualChecksum, fs, deferred, requests, launched, ops>>

\* main.go:353-382
ResolveAssets ==
    /\ pc = "resolve"
    /\ binaryName' = BinaryName(goos, goarch)
    /\ downloadURL' = AssetURL(release.assets, binaryName')
    /\ checksumURL' = AssetURL(release.assets, ManifestAsset)
    /\ IF NoBinaryFound(downloadURL')
       THEN Fail("No binary found")
       ELSE IF NoManifestFound(checksumURL')
            THEN Fail("Cannot verify download integrity. Aborting for security.")
            ELSE Goto("getsums")
    /\ UNCHANGED <<mainVars, scriptVars>>
    /\ UNCHANGED <<errShown, goos, goarch, release, checksumData, expectedChecksum, body,
                   actualChecksum, fs, deferred, requests, launched, ops>>

\* main.go:384-397; http.Get of an empty URL fails without a connection
DownloadChecksums ==
    /\ pc = "getsums"
    /\ requests' = Append(requests, checksumURL)
    /\ \/ /\ \E msg \in { "Error downloading checksums", "Error reading checksums" } : Fail(msg)
          /\ UNCHANGED checksumData
       \/ /\ checksumURL # ""
          /\ \E ls \in SeqsUpTo(ManifestLines(BinaryName(goos, goarch), goos, goarch), MaxLines) :
                checksumData' = JoinLines(ls)
          /\ Goto("parsesums")
    /\ UNCHANGED <<mainVars, scriptVars>>
    /\ UNCHANGED <<errShown, goos, goarch, release, binaryName, downloadURL, checksumURL,
                   expectedChecksum, body, actualChecksum, fs, deferred, launched, ops>>

\* main.go:399-412
ParseChecksum ==
    /\ pc = "parsesums"
    /\ expectedChecksum' = ExpectedChecksumOf(checksumData, binaryName)
    /\ IF expectedChecksum' = ""
       THEN Fail("No checksum found")
       ELSE Goto("getbin")
    /\ UNCHANGED <<mainVars, scriptVars>>
    /\ UNCHANGED <<errShown, goos, goarch, release, binaryName, downloadURL, checksumURL, checksumData,
                   body, actualChecksum, fs, deferred, requests, launched, ops>>

\* main.go:414-426
DownloadBinary ==
    /\ pc = "getbin"
    /\ requests' = Append(requests, downloadURL)
    /\ \/ /\ \E msg \in { "Error downloading binary", "Error downloading binary: HTTP" } : Fail(msg)
          /\ UNCHANGED body
       \/ /\ downloadURL # ""
          /\ \E b \in Bodies : body' = b
          /\ Goto("mktemp")
    /\ UNCHANGED <<mainVars, scriptVars>>
    /\ UNCHANGED <<errShown, goos, goarch, release, binaryName, downloadURL, checksumURL, checksumData,
                   expectedChecksum, actualChecksum, fs, deferred, launched, ops>>

\* main.go:428-435
CreateTemp ==
    /\ pc = "mktemp"
    /\ \/ /\ Fail("Error creating temporary file")
          /\ UNCHANGED <<fs, deferred, ops>>
       \/ /\ fs' = [fs EXCEPT ![tmpPath] = [data |-> "", exec |-> FALSE]]
          /\ deferred' = TRUE
          /\ ops' = Append(ops, Op("create", "", tmpPath, "ok"))
          /\ Goto("save")
    /\ UNCHANGED <<mainVars, scriptVars>>
    /\ UNCHANGED <<errShown, goos, goarch, release, binaryName, downloadURL, checksumURL, checksumData,
                   expectedChecksum, body, actualChecksum, requests, launched>>

\* variant of WriteTemp: the download written over the executable itself
WriteTempInPlace ==
    /\ pc = "save"
    /\ \/ /\ fs' = [fs EXCEPT ![exePath].data = "truncated"]
          /\ ops' = Append(ops, Op("write", "", exePath, "fail"))
          /\ Fail("Error saving binary")
       \/ /\ fs' = [fs EXCEPT ![exePath].data = body, ![tmpPath].data = body]
          /\ ops' = Append(ops, Op("write", "", exePath, "ok"))
          /\ Goto("verify")
    /\ UNCHANGED <<mainVars, scriptVars>>
    /\ UNCHANGED <<errShown, goos, goarch, release, binaryName, downloadURL, checksumURL, checksumData,
                   expectedChecksum, body, actualChecksum, deferred, requests, launched>>

\* main.go:437-443
WriteTemp ==
    /\ pc = "save"
    /\ \/ /\ fs' = [fs EXCEPT ![tmpPath].data = "truncated"]
          /\ ops' = Append(ops, Op("write", "", tmpPath, "fail"))
          /\ Fail("Error saving binary")
       \/ /\ fs' = [fs EXCEPT ![tmpPath].data = body]
          /\ ops' = Append(ops, Op("write", "", tmpPath, "ok"))
          /\ Goto("verify")
    /\ UNCHANGED <<mainVars, scriptVars>>
    /\ UNCHANGED <<errShown, goos, goarch, release, binaryName, downloadURL, checksumURL, checksumData,
                   expectedChecksum, body, actualChecksum, deferred, requests, launched>>

\* main.go:445-460
VerifyChecksum ==
    /\ pc = "verify"
    /\ \/ /\ Fail("Error calculating checksum")
          /\ UNCHANGED actualChecksum
       \/ /\ actualChecksum' = Sha256Hex(fs[tmpPath].data)
          /\ IF ChecksumMatches(actualChecksum', expectedChecksum)
             THEN /\ pc' = "chmod"
                  /\ diag' = "Checksum verified"
                  /\ UNCHANGED status
             ELSE Fail("Checksum mismatch!")
    /\ UNCHANGED <<mainVars, scriptVars>>
    /\ UNCHANGED <<errShown, goos, goarch, release, binaryName, downloadURL, checksumURL, checksumData,
                   expectedChecksum, body, fs, deferred, requests, launched, ops>>

\* main.go:462-466
ChmodTemp ==
    /\ pc = "chmod"
    /\ \/ /\ ops' = Append(ops, Op("chmod", "", tmpPath, "fail"))
          /\ Fail("Error setting permissions")
          /\ UNCHANGED fs
       \/ /\ fs' = [fs EXCEPT ![tmpPath].exec = TRUE]
          /\ ops' = Append(ops, Op("chmod", "", tmpPath, "ok"))
          /\ Goto("exepath")
    /\ UNCHANGED <<mainVars, scriptVars>>
    /\ UNCHANGED <<errShown, goos, goarch, release, binaryName, downloadURL, checksumURL, checksumData,
                   expectedChecksum, body, actualChecksum, deferred, requests, launched>>

\* main.go:468-477 and main.go:511-516
FindExecutable ==
    /\ pc = "exepath"
    /\ \/ Fail("Error finding current executable")
       \/ Goto(IF goos = "windows" THEN "wincopy" ELSE "renameold")
    /\ UNCHANGED <<mainVars, scriptVars>>
    /\ UNCHANGED <<errShown, goos, goarch, release, binaryName, downloadURL, checksumURL, checksumData,
                   expectedChecksum, body, actualChecksum, fs, deferred, requests, launched, ops>>

\* main.go:478-485
WinCopyNew ==
    /\ pc = "wincopy"
    /\ \E r \in CopyFileResults(fs, tmpPath, newPath) :
          /\ fs' = r.fs
          /\ ops' = Append(ops, Op("copyFile", tmpPath, newPath, r.res))
          /\ IF r.res = "ok" THEN Goto("winscript") ELSE Fail("Error copying new binary")
    /\ UNCHANGED <<mainVars, scriptVars>>
    /\ UNCHANGED <<errShown, goos, goarch, release, binaryName, downloadURL, checksumURL, checksumData,
                   expectedChecksum, body, actualChecksum, deferred, requests, launched>>

\* main.go:487-503, os.WriteFile of update.bat
WinWriteScript ==
    /\ pc = "winscript"
    /\ \/ /\ \E f \in { Absent, [data |-> "truncated", exec |-> TRUE] } :
                fs' = [fs EXCEPT ![batchScript] = f]
          /\ ops' = Append(ops, Op("write", "", batchScript, "fail"))
          /\ Fail("Error creating update script")
       \/ /\ fs' = [fs EXCEPT ![batchScript] = [data |-> "update-script", exec |-> TRUE]]
          /\ ops' = Append(ops, Op("write", "", batchScript, "ok"))
          /\ pc' = "winlaunch"
          /\ diag' = "Update ready!"
          /\ UNCHANGED status
    /\ UNCHANGED <<mainVars, scriptVars>>
    /\ UNCHANGED <<errShown, goos, goarch, release, binaryName, downloadURL, checksumURL, checksumData,
                   expectedChecksum, body, actualChecksum, deferred, requests, launched>>

\* main.go:505-508: the error of cmd.Start is dropped, then os.Exit(0)
WinLaunch ==
    /\ pc = "winlaunch"
    /\ launched' \in BOOLEAN
    /\ script' = IF launched' THEN "moveold" ELSE "none"
    /\ pc' = "exited"
    /\ status' = "exit0"
    /\ UNCHANGED <<mainVars, scriptOps>>
    /\ UNCHANGED <<errShown, goos, goarch, diag, release, binaryName, downloadURL, checksumURL, checksumData,
                   expectedChecksum, body, actualChecksum, fs, deferred, requests, ops>>

\* main.go:489-490: timeout /t 1, then move /y "<path>" "<path>.old"; the
\* script does not look at the result
ScriptMoveOld ==
    /\ script = "moveold"
    /\ \E r \in RenameResults(fs, exePath, oldPath) :
          /\ fs' = r.fs
          /\ scriptOps' = Append(scriptOps, Op("move", exePath, oldPath, r.res))
    /\ script' = "movenew"
    /\ UNCHANGED <<pc, status, diag, mainVars>>
    /\ UNCHANGED <<errShown, goos, goarch, release, binaryName, downloadURL, checksumURL, checksumData,
                   expectedChecksum, body, actualChecksum, deferred, requests, launched, ops>>

\* main.go:491: move /y "<path>.new" "<path>"
ScriptMoveNew ==
    /\ script = "movenew"
    /\ \E r \in RenameResults(fs, newPath, exePath) :
          /\ fs' = r.fs
          /\ scriptOps' = Append(scriptOps, Op("move", newPath, exePath, r.res))
    /\ script' = "delold"
    /\ UNCHANGED <<pc, status, diag, mainVars>>
    /\ UNCHANGED <<errShown, goos, goarch, release, binaryName, downloadURL, checksumURL, checksumData,
                   expectedChecksum, body, actualChecksum, deferred, requests, launched, ops>>

\* main.go:492: del "<path>.old", whatever the two moves did
ScriptDelOld ==
    /\ script = "delold"
    /\ \/ /\ Exists(fs[oldPath])
          /\ fs' = [fs EXCEPT ![oldPath] = Absent]
          /\ scriptOps' = Append(scriptOps, Op("del", "", oldPath, "ok"))
       \/ /\ UNCHANGED fs
          /\ scriptOps' = Append(scriptOps, Op("del", "", oldPath, "fail"))
    /\ script' = "delself"
    /\ UNCHANGED <<pc, status, diag, mainVars>>
    /\ UNCHANGED <<errShown, goos, goarch, release, binaryName, downloadURL, checksumURL, checksumData,
                   expectedChecksum, body, actualChecksum, deferred, requests, launched, ops>>

\* main.go:493: del "%~f0"
ScriptDelSelf ==
    /\ script = "delself"
    /\ fs' = [fs EXCEPT ![batchScript] = Absent]
    /\ scriptOps' = Append(scriptOps, Op("del", "", batchScript, "ok"))
    /\ script' = "done"
    /\ UNCHANGED <<pc, status, diag, mainVars>>
    /\ UNCHANGED <<errShown, goos, goarch, release, binaryName, downloadURL, checksumURL, checksumData,
                   expectedChecksum, body, actualChecksum, deferred, requests, launched, ops>>

\* main.go:516-517
RenameOld ==
    /\ pc = "renameold"
    /\ \E r \in RenameResults(fs, exePath, oldPath) :
          /\ fs' = r.fs
          /\ ops' = Append(ops, Op("rename", exePath, oldPath, r.res))
          /\ Goto(IF r.res = "ok" THEN "renamenew" ELSE "directcopy")
    /\ UNCHANGED <<mainVars, scriptVars>>
    /\ UNCHANGED <<errShown, goos, goarch, release, binaryName, downloadURL, checksumURL, checksumData,
                   expectedChecksum, body, actualChecksum, deferred, requests, launched>>

\* main.go:518-523 and main.go:539
DirectCopy ==
    /\ pc = "directcopy"
    /\ \E r \in CopyFileResults(fs, tmpPath, exePath) :
          /\ fs' = r.fs
          /\ ops' = Append(ops, Op("copyFile", tmpPath, exePath, r.res))
          /\ errShown' = IF r.res = "ok" THEN errShown ELSE r.res
          /\ IF r.res = "ok"
             THEN /\ pc' = "return"
                  /\ diag' = "Updated successfully!"
                  /\ UNCHANGED status
             ELSE Fail("Error replacing binary")
    /\ UNCHANGED <<mainVars, scriptVars>>
    /\ UNCHANGED <<goos, goarch, release, binaryName, downloadURL, checksumURL, checksumData,
                   expectedChecksum, body, actualChecksum, deferred, requests, launched>>

\* main.go:525-526
RenameNew ==
    /\ pc = "renamenew"
    /\ \E r \in RenameResults(fs, tmpPath, exePath) :
          /\ fs' = r.fs
          /\ ops' = Append(ops, Op("rename", tmpPath, exePath, r.res))
          /\ Goto(IF r.res = "ok" THEN "removeold" ELSE "fallbackcopy")
    /\ UNCHANGED <<mainVars, scriptVars>>
    /\ UNCHANGED <<errShown, goos, goarch, release, binaryName, downloadURL, checksumURL, checksumData,
                   expectedChecksum, body, actualChecksum, deferred, requests, launched>>

\* variant of FallbackCopy: the error of copyFile not looked at
FallbackCopyUnchecked ==
    /\ pc = "fallbackcopy"
    /\ \E r \in CopyFileResults(fs, tmpPath, exePath) :
          /\ fs' = r.fs
          /\ ops' = Append(ops, Op("copyFile", tmpPath, exePath, r.res))
          /\ Goto("removeold")
    /\ UNCHANGED <<mainVars, scriptVars>>
    /\ UNCHANGED <<errShown, goos, goarch, release, binaryName, downloadURL, checksumURL, checksumData,
                   expectedChecksum, body, actualChecksum, deferred, requests, launched>>

\* main.go:527-528
FallbackCopy ==
    /\ pc = "fallbackcopy"
    /\ \E r \in CopyFileResults(fs, tmpPath, exePath) :
          /\ fs' = r.fs
          /\ ops' = Append(ops, Op("copyFile", tmpPath, exePath, r.res))
          /\ Goto(IF r.res = "ok" THEN "removeold" ELSE "rollback")
    /\ UNCHANGED <<mainVars, scriptVars>>
    /\ UNCHANGED <<errShown, goos, goarch, release, binaryName, downloadURL, checksumURL, checksumData,
                   expectedChecksum, body, actualChecksum, deferred, requests, launched>>

\* variant of Rollback: a failed restoring rename reported in place of the copy's error
RollbackMasked ==
    /\ pc = "rollback"
    /\ \E r \in RenameResults(fs, oldPath, exePath) :
          /\ fs' = r.fs
          /\ ops' = Append(ops, Op("rename", oldPath, exePath, r.res))
          /\ errShown' = IF r.res = "fail" THEN "rename" ELSE ops[Len(ops)].res
    /\ Fail("Error installing new binary")
    /\ UNCHANGED <<mainVars, scriptVars>>
    /\ UNCHANGED <<goos, goarch, release, binaryName, downloadURL, checksumURL, checksumData,
                   expectedChecksum, body, actualChecksum, deferred, requests, launched>>

\* variant of Rollback: the restoring rename left out
RollbackSkipped ==
    /\ pc = "rollback"
    /\ Fail("Error installing new binary")
    /\ UNCHANGED <<mainVars, scriptVars>>
    /\ UNCHANGED <<errShown, goos, goarch, release, binaryName, downloadURL, checksumURL, checksumData,
                   expectedChecksum, body, actualChecksum, fs, deferred, requests, launched, ops>>

\* main.go:529-532: the result of the restoring rename is not looked at;
\* the message is the copy's error
Rollback ==
    /\ pc = "rollback"
    /\ \E r \in RenameResults(fs, oldPath, exePath) :
          /\ fs' = r.fs
          /\ ops' = Append(ops, Op("rename", oldPath, exePath, r.res))
    /\ errShown' = ops[Len(ops)].res
    /\ Fail("Error installing new binary")
    /\ UNCHANGED <<mainVars, scriptVars>>
    /\ UNCHANGED <<goos, goarch, release, binaryName, downloadURL, checksumURL, checksumData,
                   expectedChecksum, body, actualChecksum, deferred, requests, launched>>

\* main.go:535-539, os.Remove(oldPath) with its error dropped
RemoveOld ==
    /\ pc = "removeold"
    /\ \/ /\ fs' = [fs EXCEPT ![oldPath] = Absent]
          /\ ops' = Append(ops, Op("remove", "", oldPath, "ok"))
       \/ /\ fs' = fs
          /\ ops' = Append(ops, Op("remove", "", oldPath, "fail"))
    /\ pc' = "return"
    /\ diag' = "Updated successfully!"
    /\ UNCHANGED <<mainVars, scriptVars>>
    /\ UNCHANGED <<errShown, goos, goarch, status, release, binaryName, downloadURL, checksumURL, checksumData,
                   expectedChecksum, body, actualChecksum, deferred, requests, launched>>

\* main.go:348 and main.go:540: handleUpdate returns, its deferred os.Remove(tmpPath)
\* (main.go:435) runs, and main returns
Return ==
    /\ pc = "return"
    /\ IF deferred
       THEN /\ fs' = [fs EXCEPT ![tmpPath] = Absent]
            /\ ops' = Append(ops, Op("remove", "", tmpPath, IF Exists(fs[tmpPath]) THEN "ok" ELSE "fail"))
       ELSE UNCHANGED <<fs, ops>>
    /\ pc' = "exited"
    /\ status' = "exit0"
    /\ UNCHANGED <<mainVars, scriptVars>>
    /\ UNCHANGED <<errShown, goos, goarch, diag, release, binaryName, downloadURL, checksumURL, checksumData,
                   expectedChecksum, body, actualChecksum, deferred, requests, launched>>

Next ==
    \/ FetchRelease
    \/ CheckVersion
    \/ ResolveAssets
    \/ DownloadChecksums
    \/ ParseChecksum
    \/ DownloadBinary
    \/ CreateTemp
    \/ WriteTemp
    \/ VerifyChecksum
    \/ ChmodTemp
    \/ FindExecutable
    \/ WinCopyNew
    \/ WinWriteScript
    \/ WinLaunch
    \/ ScriptMoveOld
    \/ ScriptMoveNew
    \/ ScriptDelOld
    \/ ScriptDelSelf
    \/ RenameOld
    \/ DirectCopy
    \/ RenameNew
    \/ FallbackCopy
    \/ Rollback
    \/ RemoveOld
    \/ Return

Spec == Init /\ [][Next]_vars

----------------------------------------------------------------------------
(* Vocabulary of the properties *)

\* the expected asset name of each platform, written out
NameOfPlatform ==
    CASE goos = "linux" /\ goarch = "amd64"   -> "cc-linux-amd64"
      [] goos = "darwin" /\ goarch = "arm64"  -> "cc-darwin-arm64"
      [] goos = "windows" /\ goarch = "amd64" -> "cc-windows-amd64.exe"

\* a release response was received and decoded
ReleaseReceived == release.tag # ""

HasAssetNamed(n) == \E i \in 1..Len(release.assets) : release.assets[i].name = n

\* the manifest was downloaded and read to its end
ManifestRead ==
    /\ Len(requests) >= 2
    /\ diag \notin { "Error downloading checksums", "Error reading checksums" }

\* the manifest as read has a line of exactly the two fields d and n
HasEntry(d, n) ==
    \E i \in 1..Len(SplitLines(checksumData)) : Fields(SplitLines(checksumData)[i]) = << d, n >>

LacksEntryFor(n) ==
    \A i \in 1..Len(SplitLines(checksumData)) :
        LET parts == Fields(SplitLines(checksumData)[i])
        IN  ~(Len(parts) = 2 /\ parts[2] = n)

\* the operations of the log that write, move or remove a path of the installation
InstallOps == { i \in 1..Len(ops) : Touched(ops[i]) \cap InstallPaths # { } }

InitialFiles == [p \in Paths |-> IF p = exePath THEN Original ELSE Absent]

\* a complete executable: all the bytes of a binary and the execute permission
Runnable(f) == f.exec /\ f.data \in { "original-binary" } \cup Bodies

OnlyReleaseRequested == requests = << ReleaseAPI >>

Did(kind, src, dst, res) == \E i \in 1..Len(ops) : ops[i] = Op(kind, src, dst, res)

----------------------------------------------------------------------------
(* Properties *)

\* C1: the running executable's path, <path>.old, <path>.new and the update
\* script are written, moved or removed only after the SHA-256 digest of the
\* downloaded temporary file was found equal to the digest the manifest
\* records for exactly the resolved asset name; when the two digests differ
\* the run has failed and none of those paths was touched.
C1_NoInstallWithoutVerifiedDigest ==
    /\ InstallOps # { } =>
          /\ actualChecksum = Sha256Hex(body)
          /\ actualChecksum = expectedChecksum
          /\ HasEntry(actualChecksum, NameOfPlatform)
    /\ (actualChecksum # "" /\ actualChecksum # expectedChecksum) =>
          /\ pc = "exited"
          /\ status = "exit1"
          /\ InstallOps = { }
          /\ \A p \in InstallPaths : fs[p] = InitialFiles[p]

\* C1, its case: the downloaded bytes were verified and put in place
C1_Witness ==
    /\ InstallOps # { }
    /\ fs[exePath].data = body
    /\ actualChecksum = expectedChecksum

\* C2 as stated: every release that holds the platform binary and no asset
\* named checksums.txt makes handleUpdate exit non-zero, with no download of
\* the manifest or the binary and no replacement.
C2_Original ==
    (ReleaseReceived /\ HasAssetNamed(NameOfPlatform) /\ ~HasAssetNamed(ManifestAsset)) =>
        /\ OnlyReleaseRequested
        /\ ops = << >>
        /\ pc = "exited" => status = "exit1"

\* C2 as amended: the same, for the releases whose tag differs from VERSION
\* (a release whose tag equals VERSION ends the run with status zero before
\* the assets are looked at).
C2_NoManifestAssetAborts ==
    (/\ ReleaseReceived
     /\ release.tag # VERSION
     /\ HasAssetNamed(NameOfPlatform)
     /\ ~HasAssetNamed(ManifestAsset)) =>
        /\ pc \in { "compare", "resolve", "exited" }
        /\ pc = "exited" => status = "exit1"
        /\ OnlyReleaseRequested
        /\ ops = << >>
        /\ fs = InitialFiles

\* C2, its case: the binary is there with its URL, the manifest is not, and the run was refused
C2_Witness ==
    /\ HasAssetNamed(NameOfPlatform)
    /\ ~HasAssetNamed(ManifestAsset)
    /\ downloadURL # ""
    /\ status = "exit1"
    /\ diag = "Cannot verify download integrity. Aborting for security."

\* C3: when the manifest that was read has no entry for the resolved asset
\* name, the flow fails with "No checksum found" and a non-zero exit, and no
\* temporary binary file exists.
C3_NoEntryAborts ==
    (ManifestRead /\ LacksEntryFor(NameOfPlatform)) =>
        /\ pc \in { "parsesums", "exited" }
        /\ pc = "exited" => (status = "exit1" /\ diag = "No checksum found")
        /\ ~Exists(fs[tmpPath])
        /\ Len(requests) = 2

\* C3, its case: a manifest with lines, none of them an entry for the name, was refused
C3_Witness ==
    /\ ManifestRead
    /\ LacksEntryFor(NameOfPlatform)
    /\ HasEntry("9f2c", NameOfPlatform \o "-v2")
    /\ pc = "exited"
    /\ diag = "No checksum found"

\* C4: once the temporary download file was created, it is gone when the
\* process has exited, on every exit path but the Windows branch that hands
\* over to the detached script.
C4_TempFileRemovedOnExit ==
    (/\ pc = "exited"
     /\ deferred
     /\ ~(goos = "windows" /\ \E i \in 1..Len(ops) : ops[i].dst = newPath)) =>
        ~Exists(fs[tmpPath])

\* C5: on the Unix path, a run that fails in the replacement stage leaves the
\* system runnable: at process exit the file at the executable path is a
\* complete executable, never missing, truncated or partly written.  (The
\* claim says more, that this file is the original; what is stated here
\* follows from it.)
C5_FailureLeavesRunnable ==
    (/\ goos # "windows"
     /\ pc = "exited"
     /\ status = "exit1"
     /\ \E i \in 1..Len(ops) : ops[i].op = "rename" /\ ops[i].src = exePath) =>
        Runnable(fs[exePath])

\* C6 as stated: when the rename of the original to <path>.old succeeded
\* and the rename of the new binary into place failed, the original is back
\* at its path at the end of the run.
C6_Original ==
    (/\ pc = "exited"
     /\ Did("rename", exePath, oldPath, "ok")
     /\ Did("rename", tmpPath, exePath, "fail")) =>
        fs[exePath] = Original

\* C6 as amended: in that case the flow first copies the new binary to the
\* path; when the copy succeeds the new binary is installed and the run
\* succeeds; when the copy fails the rename of <path>.old back to <path> is
\* attempted, the run fails, and if that rename succeeded the original is
\* back at its path.
C6_CopyThenRollback ==
    (/\ pc = "exited"
     /\ Did("rename", exePath, oldPath, "ok")
     /\ Did("rename", tmpPath, exePath, "fail")) =>
        \/ /\ Did("copyFile", tmpPath, exePath, "ok")
           /\ status = "exit0"
           /\ fs[exePath] = [data |-> body, exec |-> TRUE]
        \/ /\ ~Did("copyFile", tmpPath, exePath, "ok")
           /\ status = "exit1"
           /\ diag = "Error installing new binary"
           /\ \E r \in { "ok", "fail" } : ops[Len(ops)] = Op("rename", oldPath, exePath, r)
           /\ Did("rename", oldPath, exePath, "ok") =>
                 (fs[exePath] = Original /\ ~Exists(fs[oldPath]))

\* C6, its case: second rename failed, copy failed, the original was renamed back
C6_Witness ==
    /\ pc = "exited"
    /\ Did("rename", exePath, oldPath, "ok")
    /\ Did("rename", tmpPath, exePath, "fail")
    /\ Did("copyFile", tmpPath, exePath, "copy")
    /\ Did("rename", oldPath, exePath, "ok")
    /\ fs[exePath] = Original

\* C7: in every state of the update process a complete runnable executable,
\* the old one or the new one, is at the executable path.
C7_AlwaysRunnableAtPath ==
    Runnable(fs[exePath])

\* C8: when the tag of the release equals VERSION, handleUpdate returns and
\* the process ends with status zero, having requested nothing but the
\* release metadata and having touched no file.
C8_CurrentVersionStops ==
    release.tag = VERSION =>
        /\ pc \in { "compare", "return", "exited" }
        /\ pc = "compare" => ENABLED CheckVersion
        /\ pc = "return" => ENABLED Return
        /\ pc = "exited" => status = "exit0"
        /\ status # "exit1"
        /\ OnlyReleaseRequested
        /\ ops = << >>
        /\ fs = InitialFiles

\* C8, its case: a release with the running version's tag and a full asset list ended the run
C8_Witness ==
    /\ release.tag = VERSION
    /\ HasAssetNamed(NameOfPlatform)
    /\ HasAssetNamed(ManifestAsset)
    /\ pc = "exited"
    /\ status = "exit0"

\* C9 as stated: every release without an asset named exactly as the
\* platform binary makes handleUpdate fail with "No binary found" and a
\* non-zero exit, with no download.
C9_Original ==
    (ReleaseReceived /\ ~HasAssetNamed(NameOfPlatform)) =>
        /\ OnlyReleaseRequested
        /\ pc = "exited" => (status = "exit1" /\ diag = "No binary found")

\* C9 as amended: the same, for the releases whose tag differs from VERSION.
C9_NoBinaryAssetAborts ==
    (ReleaseReceived /\ release.tag # VERSION /\ ~HasAssetNamed(NameOfPlatform)) =>
        /\ pc \in { "compare", "resolve", "exited" }
        /\ pc = "exited" => (status = "exit1" /\ diag = "No binary found")
        /\ OnlyReleaseRequested
        /\ ops = << >>
        /\ fs = InitialFiles

\* C9, its case: the manifest and a near name are there, the binary is not
C9_Witness ==
    /\ ~HasAssetNamed(NameOfPlatform)
    /\ HasAssetNamed(ManifestAsset)
    /\ HasAssetNamed(NameOfPlatform \o "-v2")
    /\ checksumURL # ""
    /\ status = "exit1"
    /\ diag = "No binary found"

\* C10: the expected name is cc-<os>-<arch>, with .exe exactly on windows;
\* the asset whose URL is taken is one named exactly so, the manifest asset
\* one named exactly checksums.txt, the manifest line one whose second field
\* is exactly the name; nothing else is ever requested.
C10_ExactNames ==
    /\ binaryName \in { "", NameOfPlatform }
    /\ pc \notin { "fetch", "compare", "resolve" } /\ ReleaseReceived /\ release.tag # VERSION
          => binaryName = NameOfPlatform
    /\ downloadURL # "" =>
          \E i \in 1..Len(release.assets) :
              release.assets[i] = Asset(NameOfPlatform, downloadURL)
    /\ checksumURL # "" =>
          \E i \in 1..Len(release.assets) :
              release.assets[i] = Asset("checksums.txt", checksumURL)
    /\ \A i \in 1..Len(requests) :
          requests[i] \in { ReleaseAPI, URLOf(NameOfPlatform), URLOf("checksums.txt") }
    /\ expectedChecksum # "" => HasEntry(expectedChecksum, NameOfPlatform)

\* C10, its case: an entry for a longer name precedes the entry for the name, and the second was taken
C10_Witness ==
    /\ downloadURL = URLOf(NameOfPlatform)
    /\ HasEntry("9f2c", NameOfPlatform \o "-v2")
    /\ ~HasEntry("9f2c", NameOfPlatform)
    /\ expectedChecksum = "0b7e"
    /\ body = "tampered-bytes"
    /\ pc = "chmod"

\* the run ended at main.go:453-458, on a checksum mismatch
Mismatched == pc = "exited" /\ diag = "Checksum mismatch!"

\* the statements of handleUpdate before the replacement stage
BeforeReplacement ==
    { "fetch", "compare", "resolve", "getsums", "parsesums", "getbin", "mktemp", "save",
      "verify", "chmod", "exepath" }

\* the diagnostics of the failures before the replacement stage
EarlyDiagnostics ==
    { "Error checking for updates", "Error fetching release info", "Error parsing release info",
      "No binary found", "Cannot verify download integrity. Aborting for security.",
      "Error downloading checksums", "Error reading checksums", "No checksum found",
      "Error downloading binary", "Error downloading binary: HTTP",
      "Error creating temporary file", "Error saving binary", "Error calculating checksum",
      "Checksum mismatch!", "Error setting permissions", "Error finding current executable",
      "You're already on the latest version" }

\* the new binary, all of it and executable, is the file at f
IsNewBinary(f) == body # "" /\ f = [data |-> body, exec |-> TRUE]

\* C11 as stated: the digests are compared without regard to letter case: the
\* run ends on a checksum mismatch exactly when the computed digest and the
\* manifest's digest differ in more than letter case.
C11_Original ==
    actualChecksum # "" =>
        (Mismatched <=> ToLower(actualChecksum) # ToLower(expectedChecksum))

\* C11 as amended: the digests are compared as strings, letter case included:
\* the run ends on a checksum mismatch exactly when the manifest's digest is
\* not the lower-case hex digest that was computed, so also when the two
\* differ in letter case only.
C11_ExactDigestComparison ==
    actualChecksum # "" =>
        /\ Mismatched <=> actualChecksum # expectedChecksum
        /\ Mismatched => (status = "exit1" /\ InstallOps = { } /\ fs[exePath] = Original)

\* C11, its case: the manifest has the computed digest in upper case, and the run was refused
C11_Witness ==
    /\ actualChecksum = "9f2c"
    /\ expectedChecksum = "9F2C"
    /\ Mismatched
    /\ status = "exit1"

\* C12: the process exits with status zero only when the running version is
\* the latest or the new binary is installed; in particular a Windows run
\* whose update script could not be launched does not exit with status zero.
\* (A Windows run that did launch the script is let through here: what is
\* stated follows from the claim.)
C12_ZeroOnlyOnSuccess ==
    status = "exit0" =>
        \/ release.tag = VERSION
        \/ IsNewBinary(fs[exePath])
        \/ goos = "windows" /\ launched

\* C13: <path>.old is removed only when the verified new binary is completely
\* at <path>, and a Windows run never deletes, renames or writes <path>.
C13_BackupOutlivesOriginal ==
    /\ (\E i \in 1..Len(ops) : ops[i].op = "remove" /\ ops[i].dst = oldPath) =>
          /\ IsNewBinary(fs[exePath])
          /\ actualChecksum = expectedChecksum
          /\ actualChecksum = Sha256Hex(body)
    /\ pc = "removeold" => IsNewBinary(fs[exePath])
    /\ goos = "windows" =>
          /\ scriptOps = << >> => fs[exePath] = Original
          /\ \A i \in 1..Len(ops) : exePath \notin Touched(ops[i]) /\ oldPath \notin Touched(ops[i])

\* C13, its case: the new binary was copied into place across devices, then <path>.old removed
C13_Witness ==
    /\ Did("copyFile", tmpPath, exePath, "ok")
    /\ Did("remove", "", oldPath, "ok")
    /\ ~Exists(fs[oldPath])
    /\ IsNewBinary(fs[exePath])

\* C14: in every state before the replacement stage, and after every failure
\* before it, the file at the executable path is the original and no path of
\* the installation was touched.
C14_ReplacementLast ==
    (\/ pc \in BeforeReplacement
     \/ pc = "return" /\ release.tag = VERSION
     \/ pc = "exited" /\ diag \in EarlyDiagnostics) =>
        /\ fs[exePath] = Original
        /\ \A p \in InstallPaths \ { exePath } : fs[p] = Absent
        /\ InstallOps = { }

\* C14, its case: the verified binary is staged and executable, the original untouched
C14_Witness ==
    /\ pc = "exepath"
    /\ IsNewBinary(fs[tmpPath])
    /\ actualChecksum = expectedChecksum
    /\ fs[exePath] = Original

\* C15: when the copy of the new binary failed after the original was moved
\* aside, the rename of <path>.old back to <path> is issued before the exit,
\* and whatever its result the error printed is the copy's and the exit
\* status is non-zero.
C15_RollbackKeepsCopyError ==
    (/\ pc = "exited"
     /\ Did("rename", exePath, oldPath, "ok")
     /\ \E r \in { "open", "create", "copy", "chmod" } : Did("copyFile", tmpPath, exePath, r)) =>
        /\ Len(ops) >= 2
        /\ ops[Len(ops)].op = "rename" /\ ops[Len(ops)].src = oldPath /\ ops[Len(ops)].dst = exePath
        /\ ops[Len(ops) - 1].op = "copyFile"
        /\ errShown = ops[Len(ops) - 1].res
        /\ errShown \in { "open", "create", "copy", "chmod" }
        /\ diag = "Error installing new binary"
        /\ status = "exit1"

\* C15, its case: the copy failed and so did the restoring rename
C15_Witness ==
    /\ pc = "exited"
    /\ Did("copyFile", tmpPath, exePath, "copy")
    /\ Did("rename", oldPath, exePath, "fail")
    /\ errShown = "copy"
    /\ status = "exit1"

\* C19: a run of the Unix replacement stage ends in one of three states:
\* installed (the new binary at <path>, no backup left to restore, success),
\* rolled back (the original back at <path>, failure), or, after a failed
\* direct copy, verified with the original unchanged at <path>.
C19_ThreePaths ==
    (/\ goos # "windows"
     /\ pc = "exited"
     /\ \E i \in 1..Len(ops) : ops[i].op = "rename" /\ ops[i].src = exePath) =>
        \/ /\ Did("rename", exePath, oldPath, "ok")
           /\ status = "exit0"
           /\ IsNewBinary(fs[exePath])
        \/ /\ Did("rename", exePath, oldPath, "ok")
           /\ status = "exit1"
           /\ fs[exePath] = Original
           /\ ~Exists(fs[oldPath])
        \/ /\ Did("rename", exePath, oldPath, "fail")
           /\ status = "exit0"
           /\ IsNewBinary(fs[exePath])
        \/ /\ Did("rename", exePath, oldPath, "fail")
           /\ status = "exit1"
           /\ fs[exePath] = Original

(***************************************************************************)
(* The review and commit workflow of main (main.go:27-240)                 *)
(***************************************************************************)

\* the longest command line the model starts main with
MaxArgs == 2

\* const FileSummaryThreshold of the git package
FileSummaryThreshold == 10

\* the arguments that name a command of their own
CommandWords == { "version", "--version", "-v", "update", "models" }

\* the arguments that set a flag of the workflow
FlagWords == { "plan", "--force", "-f", "--no-push" }

ArgChoices == CommandWords \cup FlagWords \cup { "bogus" }

\* the numbers of changed files git can report
FileCounts == { 0, 1, FileSummaryThreshold }

\* strings.TrimSpace cuts blanks, tabs and line ends
Blank == Whitespace \cup { "\n" }

RECURSIVE TrimLeft(_)
TrimLeft(s) ==
    IF s # << >> /\ s[1] \in Blank THEN TrimLeft(Tail(s)) ELSE s

RECURSIVE TrimRight(_)
TrimRight(s) ==
    IF s # << >> /\ s[Len(s)] \in Blank THEN TrimRight(SubSeq(s, 1, Len(s) - 1)) ELSE s

\* strings.TrimSpace(s)
TrimSpace(s) == TrimRight(TrimLeft(s))

\* strings.ToLower(s) of a text
ToLowerText(s) == [i \in 1..Len(s) |-> ToLower(s[i])]

\* strings.ToUpper(s) of a text
ToUpperText(s) == [i \in 1..Len(s) |-> ToUpper(s[i])]

\* strings.HasPrefix(s, prefix) of texts
HasPrefixText(s, prefix) ==
    Len(s) >= Len(prefix) /\ SubSeq(s, 1, Len(prefix)) = prefix

\* variant of IsIssue: the prefix compared without strings.ToUpper
IsIssueCaseSensitive(r) == HasPrefixText(r, << "ISSUE", ":" >>)

\* main.go:166: strings.HasPrefix(strings.ToUpper(result), "ISSUE:")
IsIssue(r) == HasPrefixText(ToUpperText(r), << "ISSUE", ":" >>)

\* main.go:184: the line starts with "suggested message:" or "commit message:"
IsMessageLine(line) ==
    \/ HasPrefixText(ToLowerText(line), << "suggested message", ":" >>)
    \/ HasPrefixText(ToLowerText(line), << "commit message", ":" >>)

\* strings.SplitN(line, ":", 2)[1]: what follows the first colon
AfterColon(line) ==
    LET k == CHOOSE i \in 1..Len(line) :
                 line[i] = ":" /\ \A j \in 1..(i - 1) : line[j] # ":"
    IN  SubSeq(line, k + 1, Len(line))

DefaultMessage == << "chore", ":", " ", "commit despite potential issues" >>

\* main.go:183-192: the loop over the lines, with the default of line 191
RECURSIVE FirstMessage(_)
FirstMessage(lines) ==
    IF lines = << >> THEN DefaultMessage
    ELSE IF IsMessageLine(lines[1])
         THEN TrimSpace(AfterColon(lines[1]))
         ELSE FirstMessage(Tail(lines))

\* main.go:177-193
ForcedMessage(r) == FirstMessage(SplitLines(r))

Description == << "ISSUE", ":", " ", "nil dereference in parser" >>

Suggestion == << "Suggested message", ":", " ", "fix", ":", " ", "guard nil", " " >>

\* what claude.ReviewAndCommitMessage can return as text
ReviewResults ==
    { << >>,
      << "feat", ":", " ", "add parser" >>,
      << "\n", " ", "feat", ":", " ", "add parser", "\n" >>,
      << "feat", ":", " ", "add parser", "\n" >> \o Suggestion,
      << "ISSUE", " ", "nil dereference in parser" >>,
      << "no", " ", "ISSUE", ":", " ", "found" >>,
      Description,
      Description \o << "\n" >> \o Suggestion,
      << " ", "issue", ":", " ", "off by one", "\n", "SUGGESTED MESSAGE", ":", "fix", ":", " ", "loop end" >>,
      << "Issue", ":", " ", "off by one", "\n", "Commit message", ":", " ", "wip", "\n" >> \o Suggestion,
      Description \o << "\n", " " >> \o Suggestion,
      Description \o << "\n", "Suggested message", ":" >> }

\* what standard input can hold when the confirmation is read
Stdins ==
    { << >>,
      << "y" >>,
      << "\n" >>,
      << "y", "\n" >>,
      << "n", "\n" >>,
      << " ", "Y", "E", "S", " ", "\n" >>,
      << "y", "e", "\n" >>,
      << "y", "e", "s", "s", "\n" >>,
      << "n", "\n", "y", "\n" >> }

\* bufio.Reader.ReadString('\n'): the text up to and including the first
\* line end, or everything with io.EOF when there is none
ReadString(in) ==
    IF \E i \in 1..Len(in) : in[i] = "\n"
    THEN LET k == CHOOSE i \in 1..Len(in) :
                      in[i] = "\n" /\ \A j \in 1..(i - 1) : in[j] # "\n"
         IN  [line |-> SubSeq(in, 1, k), err |-> FALSE]
    ELSE [line |-> in, err |-> TRUE]

\* variant of Confirmed: any answer that begins with y
ConfirmedByPrefix(answer) == HasPrefixText(answer, << "y" >>)

\* main.go:211: response is "y" or "yes"
Confirmed(answer) == answer = << "y" >> \/ answer = << "y", "e", "s" >>

\* a command run or a line shown, as it is seen from outside
Call(c, a, k) == [cmd |-> c, arg |-> a, ok |-> k]

\* return from main, or os.Exit(0)
Finish(msg) ==
    /\ pc' = "exited"
    /\ status' = "exit0"
    /\ diag' = msg

\* main starts with the command line it was given
MainInit ==
    /\ \E p \in Platforms : goos = p[1] /\ goarch = p[2]
    /\ args \in SeqsUpTo(ArgChoices, MaxArgs)
    /\ pc = "dispatch"
    /\ status = "running"
    /\ diag = ""
    /\ release = [tag |-> "", assets |-> << >>]
    /\ binaryName = ""
    /\ downloadURL = ""
    /\ checksumURL = ""
    /\ checksumData = << >>
    /\ expectedChecksum = ""
    /\ body = ""
    /\ actualChecksum = ""
    /\ fs = [p \in Paths |-> IF p = exePath THEN Original ELSE Absent]
    /\ deferred = FALSE
    /\ requests = << >>
    /\ launched = FALSE
    /\ ops = << >>
    /\ errShown = ""
    /\ planMode = FALSE
    /\ forceMode = FALSE
    /\ noPush = FALSE
    /\ result = << >>
    /\ response = << >>
    /\ calls = << >>
    /\ script = "none"
    /\ scriptOps = << >>
    /\ spin = "none"
    /\ stopSpinner = "empty"
    /\ wg = 0
    /\ frame = 0
    /\ tty = ""
    /\ reviewErr = FALSE

\* main.go:35-51: the three tests of os.Args[1]; handleUpdate goes on as the
\* actions of Next
Dispatch ==
    /\ pc = "dispatch"
    /\ IF args # << >> /\ args[1] \in { "version", "--version", "-v" }
       THEN /\ calls' = Append(calls, Call("version", << VERSION >>, TRUE))
            /\ Finish("cc version")
       ELSE IF args # << >> /\ args[1] = "update"
       THEN /\ calls' = Append(calls, Call("handleUpdate", << >>, TRUE))
            /\ Goto("fetch")
       ELSE IF args # << >> /\ args[1] = "models"
       THEN /\ calls' = Append(calls, Call("handleModels", << >>, TRUE))
            /\ Goto("models")
       ELSE /\ Goto("args")
            /\ UNCHANGED calls
    /\ UNCHANGED <<args, planMode, forceMode, noPush, result, response>>
    /\ UNCHANGED <<updateVars, spinVars>>

\* main.go:242-305: the selection is kept, refused or saved; only a failing
\* config.Save exits with 1
HandleModels ==
    /\ pc = "models"
    /\ \E saved \in BOOLEAN :
          /\ calls' = Append(calls, Call("config.Save", << >>, saved))
          /\ IF saved THEN Finish("Model set") ELSE Fail("Error saving config")
    /\ UNCHANGED <<args, planMode, forceMode, noPush, result, response>>
    /\ UNCHANGED <<updateVars, spinVars>>

\* main.go:53-74: the loop over os.Args[1:]
ParseArgs ==
    /\ pc = "args"
    /\ LET known   == FlagWords \cup CommandWords
           unknown == { i \in 1..Len(args) : args[i] \notin known }
           n       == IF unknown = {} THEN Len(args)
                      ELSE (CHOOSE i \in unknown : \A j \in unknown : i <= j) - 1
           seen    == { args[i] : i \in 1..n }
       IN  /\ planMode' = ("plan" \in seen)
           /\ forceMode' = ("--force" \in seen \/ "-f" \in seen)
           /\ noPush' = ("--no-push" \in seen)
           /\ IF unknown = {} THEN Goto("changes") ELSE Fail("Unknown parameter")
    /\ UNCHANGED <<args, result, response, calls>>
    /\ UNCHANGED <<updateVars, spinVars>>

\* main.go:76-112: git.GetChangedFiles, then git.GetDiffSummary or git.GetDiff
GetChanges ==
    /\ pc = "changes"
    /\ \E listed \in BOOLEAN, fileCount \in FileCounts, diffed \in BOOLEAN, empty \in BOOLEAN :
          LET useSummaryMode == fileCount >= FileSummaryThreshold
              list == Call("git.GetChangedFiles", << >>, listed)
              diff == Call(IF useSummaryMode THEN "git.GetDiffSummary" ELSE "git.GetDiff",
                           << >>, diffed)
          IN  IF ~listed
              THEN /\ calls' = Append(calls, list)
                   /\ Fail("Error getting changed files")
              ELSE IF fileCount = 0
              THEN /\ calls' = Append(calls, list)
                   /\ Finish("No changes to commit.")
              ELSE /\ calls' = calls \o << list, diff >>
                   /\ IF ~diffed THEN Fail("Error getting git diff")
                      ELSE IF empty THEN Finish("No changes to commit.")
                      ELSE Goto("review")
    /\ UNCHANGED <<args, planMode, forceMode, noPush, result, response>>
    /\ UNCHANGED <<updateVars, spinVars>>

\* main.go:114-163: the call of Claude under the spinner, and the trimming
Review ==
    /\ pc = "review"
    /\ \/ /\ calls' = Append(calls, Call("claude", << >>, FALSE))
          /\ Fail("Error calling Claude")
          /\ UNCHANGED result
       \/ \E r \in ReviewResults :
             /\ calls' = Append(calls, Call("claude", r, TRUE))
             /\ result' = TrimSpace(r)
             /\ Goto("issue")
    /\ UNCHANGED <<args, planMode, forceMode, noPush, response>>
    /\ UNCHANGED <<updateVars, spinVars>>

\* main.go:165-195
CheckIssue ==
    /\ pc = "issue"
    /\ IF IsIssue(result)
       THEN IF ~forceMode
            THEN /\ Fail("Please fix these issues before committing.")
                 /\ UNCHANGED result
            ELSE /\ result' = ForcedMessage(result)
                 /\ Goto("show")
       ELSE /\ Goto("show")
            /\ UNCHANGED result
    /\ UNCHANGED <<args, planMode, forceMode, noPush, response, calls>>
    /\ UNCHANGED <<updateVars, spinVars>>

\* main.go:197-198
ShowMessage ==
    /\ pc = "show"
    /\ calls' = Append(calls, Call("show", result, TRUE))
    /\ Goto(IF planMode THEN "confirm" ELSE "stage")
    /\ UNCHANGED <<args, planMode, forceMode, noPush, result, response>>
    /\ UNCHANGED <<updateVars, spinVars>>

\* main.go:200-215
Confirm ==
    /\ pc = "confirm"
    /\ \E in \in Stdins :
          LET read   == ReadString(in)
              answer == ToLowerText(TrimSpace(read.line))
          IN  /\ calls' = calls \o << Call("ask", << >>, TRUE), Call("read", read.line, ~read.err) >>
              /\ IF read.err
                 THEN /\ Fail("Error reading input")
                      /\ UNCHANGED response
                 ELSE /\ response' = answer
                      /\ IF Confirmed(answer) THEN Goto("stage")
                         ELSE Finish("Aborted. No changes were committed.")
    /\ UNCHANGED <<args, planMode, forceMode, noPush, result>>
    /\ UNCHANGED <<updateVars, spinVars>>

\* variant of StageAll: the error of git.StageAll is not looked at
StageAllIgnored ==
    /\ pc = "stage"
    /\ \E staged \in BOOLEAN :
          /\ calls' = Append(calls, Call("git add", << >>, staged))
          /\ Goto("commit")
    /\ UNCHANGED <<args, planMode, forceMode, noPush, result, response>>
    /\ UNCHANGED <<updateVars, spinVars>>

\* main.go:217-222
StageAll ==
    /\ pc = "stage"
    /\ \E staged \in BOOLEAN :
          /\ calls' = Append(calls, Call("git add", << >>, staged))
          /\ IF staged THEN Goto("commit") ELSE Fail("Error staging changes")
    /\ UNCHANGED <<args, planMode, forceMode, noPush, result, response>>
    /\ UNCHANGED <<updateVars, spinVars>>

\* main.go:224-228
Commit ==
    /\ pc = "commit"
    /\ \E committed \in BOOLEAN :
          /\ calls' = Append(calls, Call("git commit", result, committed))
          /\ IF committed THEN Goto("push") ELSE Fail("Error committing")
    /\ UNCHANGED <<args, planMode, forceMode, noPush, result, response>>
    /\ UNCHANGED <<updateVars, spinVars>>

\* main.go:230-239
Push ==
    /\ pc = "push"
    /\ IF noPush
       THEN /\ Finish("Done (not pushed).")
            /\ UNCHANGED calls
       ELSE \E pushed \in BOOLEAN :
               /\ calls' = Append(calls, Call("git push", << >>, pushed))
               /\ IF pushed THEN Finish("Done.") ELSE Fail("Error pushing")
    /\ UNCHANGED <<args, planMode, forceMode, noPush, result, response>>
    /\ UNCHANGED <<updateVars, spinVars>>

MainNext ==
    \/ Dispatch
    \/ HandleModels
    \/ ParseArgs
    \/ GetChanges
    \/ Review
    \/ CheckIssue
    \/ ShowMessage
    \/ Confirm
    \/ StageAll
    \/ Commit
    \/ Push

MainSpec == MainInit /\ [][MainNext]_vars

(***************************************************************************)
(* Properties of the review and commit workflow                            *)
(***************************************************************************)

Given(word) == \E i \in 1..Len(args) : args[i] = word

Forced == Given("--force") \/ Given("-f")

Ran(c) == \E i \in 1..Len(calls) : calls[i].cmd = c

GitSteps == { "git add", "git commit", "git push" }

NoGitStep == \A i \in 1..Len(calls) : calls[i].cmd \notin GitSteps

\* the calls of git add, git commit and git push, in the order they were made
GitCalls == SelectSeq(calls, LAMBDA c : c.cmd \in GitSteps)

\* the review came back without error and its trimmed text is r
Reviewed(r) ==
    \E i \in 1..Len(calls) :
        calls[i].cmd = "claude" /\ calls[i].ok /\ r = TrimSpace(calls[i].arg)

BeginsWithIssue(r) ==
    Len(r) >= 2 /\ r[1] \in { "ISSUE", "Issue", "issue" } /\ r[2] = ":"

BeginsWithLabel(line) ==
    /\ Len(line) >= 2
    /\ line[1] \in { "Suggested message", "SUGGESTED MESSAGE", "suggested message",
                      "Commit message", "COMMIT MESSAGE", "commit message" }
    /\ line[2] = ":"

\* the message the forced commit of a review text r is to carry
IsForcedMessageOf(msg, r) ==
    LET lines   == SplitLines(r)
        labeled == { i \in 1..Len(lines) : BeginsWithLabel(lines[i]) }
    IN  IF labeled = {} THEN msg = DefaultMessage
        ELSE LET k == CHOOSE i \in labeled : \A j \in labeled : i <= j
             IN  msg = TrimSpace(AfterColon(lines[k]))

\* the line read from standard input says yes
SaysYes(line) ==
    LET answer == ToLowerText(TrimSpace(line))
    IN  answer = << "y" >> \/ answer = << "y", "e", "s" >>

\* C16: in plan mode the commit message is shown and the confirmation is asked
\* for and read before any git add, commit or push, and none of the three is
\* executed unless the trimmed, lower-cased answer is "y" or "yes"; any other
\* answer ends the run with exit status 0 and no git step, a read error ends
\* it with exit status 1 and no git step.
C16_PlanModeConfirms ==
    Given("plan") =>
        /\ \A g \in 1..Len(calls) : calls[g].cmd \in GitSteps =>
              \E s, a, r \in 1..(g - 1) :
                  /\ s < a /\ a < r
                  /\ calls[s].cmd = "show"
                  /\ calls[a].cmd = "ask"
                  /\ calls[r].cmd = "read" /\ calls[r].ok /\ SaysYes(calls[r].arg)
        /\ \A r \in 1..Len(calls) :
              (calls[r].cmd = "read" /\ calls[r].ok /\ ~SaysYes(calls[r].arg)) =>
                  /\ pc = "exited" /\ status = "exit0"
                  /\ NoGitStep
        /\ \A r \in 1..Len(calls) :
              (calls[r].cmd = "read" /\ ~calls[r].ok) =>
                  /\ pc = "exited" /\ status = "exit1"
                  /\ NoGitStep

\* plan mode, the answer " YES " and the commit made after it
C16_Witness ==
    /\ Given("plan")
    /\ \E r \in 1..Len(calls) :
          calls[r].cmd = "read" /\ calls[r].arg = << " ", "Y", "E", "S", " ", "\n" >>
    /\ Ran("git commit")

\* C17: when the trimmed review result begins with "ISSUE:" in any letter case,
\* then without --force/-f no git add, commit or push is executed and the run
\* exits with status 1; with --force/-f the run goes on, and the message shown
\* and committed is the trimmed text after the first colon of the first line
\* that starts with "suggested message:" or "commit message:" in any letter
\* case, or "chore: commit despite potential issues" when there is no such line.
C17_IssueStopsUnlessForced ==
    \A c \in 1..Len(calls) :
        (calls[c].cmd = "claude" /\ calls[c].ok /\ BeginsWithIssue(TrimSpace(calls[c].arg))) =>
            IF ~Forced
            THEN /\ NoGitStep
                 /\ ~Ran("show")
                 /\ pc = "exited" => status = "exit1"
            ELSE /\ pc = "exited" => Ran("show")
                 /\ \A i \in 1..Len(calls) : calls[i].cmd \in { "show", "git commit" } =>
                        IsForcedMessageOf(calls[i].arg, TrimSpace(calls[c].arg))

\* a forced commit of a review whose first labeled line is "Commit message: wip"
C17_Witness ==
    /\ Forced
    /\ \E r \in ReviewResults : Reviewed(TrimSpace(r)) /\ BeginsWithIssue(TrimSpace(r))
    /\ \E i \in 1..Len(calls) :
          calls[i].cmd = "git commit" /\ calls[i].ok /\ calls[i].arg = << "wip" >>

\* C18: git add, git commit and git push are executed in that order, each at
\* most once, and only after the review returned without error; commit runs
\* only after a successful add, push only after a successful commit and
\* without --no-push; a failing step is the last one and the exit status is 1.
C18_StageCommitPush ==
    /\ Len(GitCalls) <= 3
    /\ \A i \in 1..Len(GitCalls) :
          /\ GitCalls[i].cmd = << "git add", "git commit", "git push" >>[i]
          /\ i > 1 => GitCalls[i - 1].ok
    /\ \A g \in 1..Len(calls) : calls[g].cmd \in GitSteps =>
          /\ \E c \in 1..(g - 1) : calls[c].cmd = "claude" /\ calls[c].ok
          /\ calls[g].cmd = "git push" => ~Given("--no-push")
          /\ ~calls[g].ok => (g = Len(calls) /\ pc = "exited" /\ status = "exit1")

\* all three steps made, the run ended with success
C18_Witness ==
    /\ Len(GitCalls) = 3
    /\ \A i \in 1..3 : GitCalls[i].ok
    /\ pc = "exited" /\ status = "exit0"

\* C20: whenever version, --version, -v, update or models appears anywhere
\* among the arguments, the review and commit workflow is not started: Claude
\* is not called and no git add, commit or push is executed.
C20_CommandWordStopsWorkflow ==
    (\E i \in 1..Len(args) : args[i] \in CommandWords) =>
        /\ ~Ran("claude")
        /\ NoGitStep

(***************************************************************************)
(* Properties of the detached update script                                *)
(***************************************************************************)

\* C21: once update.bat has run to its end, whatever its two moves did, the
\* original or the verified new binary is at <path>, complete and
\* executable; its deletion of <path>.old has not removed the last runnable
\* copy.
C21_ScriptLeavesRunnable ==
    script = "done" =>
        /\ Runnable(fs[exePath])
        /\ fs[exePath] = Original \/ IsNewBinary(fs[exePath])

(***************************************************************************)
(* The review under the spinner (main.go:114-161), one step per statement  *)
(* of the main goroutine and of the spinner goroutine                      *)
(***************************************************************************)

\* len(spinner), main.go:123
Frames == 10

\* main stands before the review, with changes found and a diff taken
SpinnerInit ==
    /\ \E p \in Platforms : goos = p[1] /\ goarch = p[2]
    /\ args = << >>
    /\ pc = "review"
    /\ status = "running"
    /\ diag = ""
    /\ release = [tag |-> "", assets |-> << >>]
    /\ binaryName = ""
    /\ downloadURL = ""
    /\ checksumURL = ""
    /\ checksumData = << >>
    /\ expectedChecksum = ""
    /\ body = ""
    /\ actualChecksum = ""
    /\ fs = [p \in Paths |-> IF p = exePath THEN Original ELSE Absent]
    /\ deferred = FALSE
    /\ requests = << >>
    /\ launched = FALSE
    /\ ops = << >>
    /\ errShown = ""
    /\ planMode = FALSE
    /\ forceMode = FALSE
    /\ noPush = FALSE
    /\ result = << >>
    /\ response = << >>
    /\ calls = << Call("git.GetChangedFiles", << >>, TRUE), Call("git.GetDiff", << >>, TRUE) >>
    /\ script = "none"
    /\ scriptOps = << >>
    /\ spin = "none"
    /\ stopSpinner = "empty"
    /\ wg = 0
    /\ frame = 0
    /\ tty = ""
    /\ reviewErr = FALSE

\* main.go:115-121: the line is printed, wg.Add(1), the goroutine is started
StartSpinner ==
    /\ pc = "review"
    /\ spin = "none"
    /\ tty' = "reviewing"
    /\ stopSpinner' = "empty"
    /\ wg' = wg + 1
    /\ spin' = "begin"
    /\ Goto("reviewing")
    /\ UNCHANGED <<result, calls, frame, reviewErr>>
    /\ UNCHANGED <<args, planMode, forceMode, noPush, response>>
    /\ UNCHANGED updateVars

\* main.go:152: claude.ReviewAndCommitMessage returns a text or an error
ReviewReturns ==
    /\ pc = "reviewing"
    /\ \/ /\ calls' = Append(calls, Call("claude", << >>, FALSE))
          /\ reviewErr' = TRUE
          /\ UNCHANGED result
       \/ \E r \in ReviewResults :
             /\ calls' = Append(calls, Call("claude", r, TRUE))
             /\ reviewErr' = FALSE
             /\ result' = r
    /\ Goto("send")
    /\ UNCHANGED <<spin, stopSpinner, wg, frame, tty>>
    /\ UNCHANGED <<args, planMode, forceMode, noPush, response>>
    /\ UNCHANGED updateVars

\* main.go:155: stopSpinner <- true blocks until the value is received
SendStop ==
    /\ pc = "send"
    /\ stopSpinner' = "sender waiting"
    /\ Goto("sending")
    /\ UNCHANGED <<result, calls, spin, wg, frame, tty, reviewErr>>
    /\ UNCHANGED <<args, planMode, forceMode, noPush, response>>
    /\ UNCHANGED updateVars

\* variant of WaitSpinner: the WaitGroup is not waited for
WaitSpinnerSkipped ==
    /\ pc = "wait"
    /\ Goto("errcheck")
    /\ UNCHANGED <<result, calls, spinVars>>
    /\ UNCHANGED <<args, planMode, forceMode, noPush, response>>
    /\ UNCHANGED updateVars

\* main.go:156: wg.Wait() returns when the counter is zero
WaitSpinner ==
    /\ pc = "wait"
    /\ wg = 0
    /\ Goto("errcheck")
    /\ UNCHANGED <<result, calls, spinVars>>
    /\ UNCHANGED <<args, planMode, forceMode, noPush, response>>
    /\ UNCHANGED updateVars

\* main.go:158-163
CheckReviewError ==
    /\ pc = "errcheck"
    /\ IF reviewErr
       THEN /\ Fail("Error calling Claude")
            /\ tty' = "error"
            /\ UNCHANGED result
       ELSE /\ result' = TrimSpace(result)
            /\ Goto("issue")
            /\ UNCHANGED tty
    /\ UNCHANGED <<calls, spin, stopSpinner, wg, frame, reviewErr>>
    /\ UNCHANGED <<args, planMode, forceMode, noPush, response>>
    /\ UNCHANGED updateVars

\* main.go:122-133: defer wg.Done(), i := 0, the text with the file count
SpinnerBegin ==
    /\ spin = "begin"
    /\ frame' = 0
    /\ spin' = "select"
    /\ UNCHANGED <<pc, stopSpinner, wg, tty>>
    /\ UNCHANGED <<status, diag, args, planMode, forceMode, noPush, result, response, calls, reviewErr>>
    /\ UNCHANGED updateVars

\* main.go:136-140: select takes the value when a sender is blocked on the
\* channel, which releases the sender, and the default case otherwise
SpinnerSelect ==
    /\ spin = "select"
    /\ IF stopSpinner = "sender waiting"
       THEN /\ stopSpinner' = "empty"
            /\ pc' = "wait"
            /\ spin' = "stopped"
       ELSE /\ spin' = "frame"
            /\ UNCHANGED <<pc, stopSpinner>>
    /\ UNCHANGED <<wg, frame, tty>>
    /\ UNCHANGED <<status, diag, args, planMode, forceMode, noPush, result, response, calls, reviewErr>>
    /\ UNCHANGED updateVars

\* main.go:141
SpinnerFrame ==
    /\ spin = "frame"
    /\ tty' = "frame"
    /\ spin' = "clear"
    /\ UNCHANGED <<pc, stopSpinner, wg, frame>>
    /\ UNCHANGED <<status, diag, args, planMode, forceMode, noPush, result, response, calls, reviewErr>>
    /\ UNCHANGED updateVars

\* main.go:144-146: the line is cleared to its end, i++
SpinnerClear ==
    /\ spin = "clear"
    /\ tty' = "cleared"
    /\ frame' = (frame + 1) % Frames
    /\ spin' = "sleep"
    /\ UNCHANGED <<pc, stopSpinner, wg>>
    /\ UNCHANGED <<status, diag, args, planMode, forceMode, noPush, result, response, calls, reviewErr>>
    /\ UNCHANGED updateVars

\* main.go:147: time.Sleep returns
SpinnerSleep ==
    /\ spin = "sleep"
    /\ spin' = "select"
    /\ UNCHANGED <<pc, stopSpinner, wg, frame, tty>>
    /\ UNCHANGED <<status, diag, args, planMode, forceMode, noPush, result, response, calls, reviewErr>>
    /\ UNCHANGED updateVars

\* main.go:138
SpinnerPrintDone ==
    /\ spin = "stopped"
    /\ tty' = "reviewed"
    /\ spin' = "return"
    /\ UNCHANGED <<pc, stopSpinner, wg, frame>>
    /\ UNCHANGED <<status, diag, args, planMode, forceMode, noPush, result, response, calls, reviewErr>>
    /\ UNCHANGED updateVars

\* main.go:139 with the deferred wg.Done() of main.go:122
SpinnerReturn ==
    /\ spin = "return"
    /\ wg' = wg - 1
    /\ spin' = "done"
    /\ UNCHANGED <<pc, stopSpinner, frame, tty>>
    /\ UNCHANGED <<status, diag, args, planMode, forceMode, noPush, result, response, calls, reviewErr>>
    /\ UNCHANGED updateVars

\* the steps of the spinner goroutine
SpinnerSteps ==
    \/ SpinnerBegin
    \/ SpinnerSelect
    \/ SpinnerFrame
    \/ SpinnerClear
    \/ SpinnerSleep
    \/ SpinnerPrintDone
    \/ SpinnerReturn

\* the steps of the main goroutine that do not wait for Claude
HandOffSteps ==
    \/ SendStop
    \/ WaitSpinner
    \/ CheckReviewError

SpinnerNext ==
    \/ StartSpinner
    \/ ReviewReturns
    \/ HandOffSteps
    \/ SpinnerSteps

\* the Go scheduler runs every goroutine that can run
SpinnerSpec ==
    /\ SpinnerInit
    /\ [][SpinnerNext]_vars
    /\ WF_vars(SpinnerSteps)
    /\ WF_vars(HandOffSteps)

(***************************************************************************)
(* Properties of the spinner hand-off                                      *)
(***************************************************************************)

\* main is past wg.Wait()
AfterWait == { "errcheck", "issue", "exited" }

\* what the spinner goroutine writes to the terminal
SpinnerTexts == { "frame", "cleared", "reviewed" }

\* a step taken after wg.Wait() has returned leaves the spinner's text alone
QuietAfterWait == pc \in AfterWait => (tty' = tty \/ tty' \notin SpinnerTexts)

\* C22: in every interleaving of the two goroutines, once
\* ReviewAndCommitMessage has returned, with or without error, the value sent
\* on stopSpinner is eventually received and wg.Wait() eventually returns;
\* when it has returned the spinner goroutine has terminated, and from then
\* on the spinner writes nothing to the terminal.
C22_SpinnerHandOff ==
    /\ [](pc \in AfterWait => (spin = "done" /\ wg = 0 /\ stopSpinner = "empty"))
    /\ [][QuietAfterWait]_vars
    /\ (pc = "send") ~> (stopSpinner = "sender waiting")
    /\ (stopSpinner = "sender waiting") ~> (spin = "stopped")
    /\ (pc = "send") ~> (pc \in AfterWait)

\* the review failed while frames were being drawn; the spinner wrote its
\* last line and ended, then main reported the error
C22_Witness ==
    /\ reviewErr
    /\ frame > 0
    /\ spin = "done"
    /\ wg = 0
    /\ pc = "exited"
    /\ tty = "error"

====
